---- MODULE Spec2Model ----
(***************************************************************************)
(* A model of requestium.Session (src/requestium/requestium.py): a         *)
(* requests.Session that lazily owns a selenium webdriver, copies cookies  *)
(* between the HTTP cookie jar and the webdriver, tracks the last URL      *)
(* fetched over HTTP, and decorates located elements with _ensure_click.   *)
(*                                                                         *)
(* Strings that the code takes apart (URLs, cookie domains, cookie paths)  *)
(* are sequences of tokens: "://", ":", "/", "." are tokens of their own   *)
(* and a registrable domain such as "example.com" is one token, so that    *)
(* str.split, concatenation and membership are computed as the code        *)
(* computes them.                                                          *)
(***************************************************************************)
EXTENDS Integers, Sequences, FiniteSets, TLC

VARIABLES browser, driver, spawned, current_url, store,
          jar, last_requests_url, last, pushed,
          py, outcomes, click,
          wait, resp, tldq

vars == <<browser, driver, spawned, current_url, store,
          jar, last_requests_url, last, pushed,
          py, outcomes, click,
          wait, resp, tldq>>

sessionVars == <<browser, driver, spawned, current_url, store,
                 jar, last_requests_url, last, pushed>>

clickVars == <<py, outcomes, click>>

\* One call of ensure_element_by_xpath, one RequestiumResponse, one call of
\* get_tld.
otherVars == <<wait, resp, tldq>>

\* Python's None, where the model holds a plain string (an exception name,
\* a cookie's expiry).
None == "None"

\* Python's None, where the code holds a URL; no URL of the model is empty.
NoUrl == <<>>

\* _driver = None: no webdriver handle; the handles are 1, 2, ...
NoDriver == 0

----------------------------------------------------------------------------
\* Bounds of the model.

\* Most cookies the HTTP jar holds.
MaxJar == 2

\* Most cookies the webdriver's store holds.
MaxStore == 2

\* Most webdriver processes the model lets a session start.
MaxSpawn == 2

\* How many clicks of the element have their outcome drawn.
MaxClicks == 6

\* How many polls of the document have their outcome drawn.
MaxPolls == 4

\* Most queries made on one response.
MaxQueries == 4

----------------------------------------------------------------------------
\* Token strings.

\* Index of the first occurrence of tok in s, 0 when there is none.
RECURSIVE FirstIndexFrom(_, _, _)
FirstIndexFrom(s, tok, i) ==
    IF i > Len(s) THEN 0
    ELSE IF s[i] = tok THEN i
    ELSE FirstIndexFrom(s, tok, i + 1)

FirstIndex(s, tok) == FirstIndexFrom(s, tok, 1)

\* s.split(tok, 1)[0]: the part before the first tok, all of s without one.
SplitHead(s, tok) ==
    IF FirstIndex(s, tok) = 0 THEN s
    ELSE SubSeq(s, 1, FirstIndex(s, tok) - 1)

\* s.split(tok, 1)[1]: the part after the first tok; the caller checks
\* HasSplitTail first (an IndexError in the code).
SplitTail(s, tok) == SubSeq(s, FirstIndex(s, tok) + 1, Len(s))

HasSplitTail(s, tok) == FirstIndex(s, tok) # 0

----------------------------------------------------------------------------
\* URLs, domains and cookies the model draws its inputs from.

\* Domains on the public suffix list that tldextract recognises.
PublicDomains == {"example.com", "other.org"}

ExampleLogin == <<"https", "://", "example.com", "/", "login">>
WwwExample == <<"http", "://", "www", ".", "example.com", "/">>
OtherHome == <<"http", "://", "other.org", "/">>

\* The URL a freshly started chromedriver reports.
StartUrl == <<"data", ":", ",">>

Urls == {ExampleLogin, OtherHome}

DotExample == <<".", "example.com">>
BareExample == <<"example.com">>
DotOther == <<".", "other.org">>

RootPath == <<"/">>
LoginPath == <<"/", "login">>

Cookie(n, v, p, e, d) ==
    [name |-> n, value |-> v, path |-> p, expiry |-> e, domain |-> d]

\* Cookies that servers and pages set in the model.
CookiePool ==
    { Cookie("sid", "v1", RootPath, None, DotExample),
      Cookie("sid", "v2", LoginPath, "2030-01-01", DotExample),
      Cookie("sid", "v2", RootPath, None, DotExample),
      Cookie("sid", "v1", RootPath, None, BareExample),
      Cookie("tok", "v1", RootPath, "2030-01-01", DotOther) }

----------------------------------------------------------------------------
\* tldextract.extract(url).registered_domain: the scheme, the path, the
\* port and the subdomains are dropped; the empty string when the host does
\* not end in a public suffix.
HostOf(url) ==
    LET noScheme == IF HasSplitTail(url, "://") THEN SplitTail(url, "://") ELSE url
    IN SplitHead(SplitHead(noScheme, "/"), ":")

registered_domain(url) ==
    LET host == HostOf(url)
    IN IF Len(host) > 0 /\ host[Len(host)] \in PublicDomains
       THEN <<host[Len(host)]>>
       ELSE <<>>

\* Session.get_tld
get_tld(url) ==
    IF registered_domain(url) = <<>>
    THEN IF HasSplitTail(url, "://")
         THEN SplitHead(SplitHead(SplitTail(url, "://"), ":"), "/")
         ELSE url
    ELSE registered_domain(url)

----------------------------------------------------------------------------
\* The HTTP cookie jar (requests.cookies.RequestsCookieJar), held as the
\* sequence its iteration yields: _cookies[domain][path][name], each level a
\* dict in insertion order.

SameKey(a, b) == a.name = b.name /\ a.domain = b.domain /\ a.path = b.path

\* The largest index of a set of indices, 0 for the empty set.
LastOf(S) == IF S = {} THEN 0 ELSE CHOOSE i \in S : \A k \in S : k <= i

InsertAfter(j, i, c) == SubSeq(j, 1, i) \o <<c>> \o SubSeq(j, i + 1, Len(j))

\* CookieJar.set_cookie: c3[cookie.name] = cookie in the nested dicts.
set_cookie(j, c) ==
    LET sameKey == LastOf({i \in 1..Len(j) : SameKey(j[i], c)})
        samePath == LastOf({i \in 1..Len(j) :
                               j[i].domain = c.domain /\ j[i].path = c.path})
        sameDomain == LastOf({i \in 1..Len(j) : j[i].domain = c.domain})
    IN IF sameKey # 0 THEN [j EXCEPT ![sameKey] = c]
       ELSE IF samePath # 0 THEN InsertAfter(j, samePath, c)
       ELSE IF sameDomain # 0 THEN InsertAfter(j, sameDomain, c)
       ELSE Append(j, c)

\* RequestsCookieJar.set(name, value, domain=domain): create_cookie fills
\* in path '/' and expires None.
jar_set(j, n, v, d) == set_cookie(j, Cookie(n, v, RootPath, None, d))

\* RequestsCookieJar.list_domains
list_domains(j) == {j[i].domain : i \in 1..Len(j)}

----------------------------------------------------------------------------
\* The webdriver (selenium), as far as Session uses it.

\* A cookie domain without its leading dot.
StripDot(d) == IF Len(d) > 0 /\ d[1] = "." THEN Tail(d) ELSE d

\* The cookie's domain is the registered domain of the page at url.
DomainMatches(d, url) ==
    registered_domain(url) # <<>> /\ StripDot(d) = registered_domain(url)

\* The path of url: from the first "/" after the host, "/" when there is none.
PathOf(url) ==
    LET noScheme == IF HasSplitTail(url, "://") THEN SplitTail(url, "://") ELSE url
    IN IF HasSplitTail(noScheme, "/")
       THEN <<"/">> \o SplitTail(noScheme, "/")
       ELSE <<"/">>

PathMatches(p, url) == p = RootPath \/ p = PathOf(url)

\* What driver.add_cookie does with a cookie it does not accept.
RejectModes == {"raise", "ignore"}

\* driver.add_cookie accepts a cookie only for the domain of the page it has
\* loaded ("a limitation that selenium imposes").
Accepts(url, c) == DomainMatches(c.domain, url)

\* The store after driver.add_cookie(c): one cookie per (name, domain, path).
StoreAdd(st, c) == {x \in st : ~SameKey(x, c)} \cup {c}

\* driver.get_cookies(): the cookies visible to the page at url.
Visible(st, url) ==
    {c \in st : DomainMatches(c.domain, url) /\ PathMatches(c.path, url)}

\* All orders in which a set of cookies can be listed.
Orders(S) ==
    {q \in [1..Cardinality(S) -> S] : \A i, k \in 1..Cardinality(S) : q[i] = q[k] => i = k}

----------------------------------------------------------------------------
\* The record of the last operation on the session: its name, its argument,
\* the exception that escaped (None for a normal return), what it returned,
\* the webdriver calls it made, in order (for update_session_cookies: the
\* cookies the webdriver listed), and for a read of session.driver the
\* handle it returned.
Op(o, a, e, r, t) ==
    [op |-> o, arg |-> a, err |-> e, ret |-> r, trace |-> t, handle |-> NoDriver]

NoOp == Op("init", NoUrl, None, None, <<>>)

\* The jar as update_driver_cookies last copied it, kept while the next
\* operation is update_session_cookies and dropped by any other.
NotPushed == [valid |-> FALSE, jar |-> <<>>]

NavEntry(u) == [act |-> "get", url |-> u]
AddEntry(c, at, ok) == [act |-> "add_cookie", cookie |-> c, at |-> at, ok |-> ok]

BrowserKinds == {"phantomjs", "chrome", "unknown"}

\* No call of ensure_click yet.
IdleClick == [events |-> <<>>, res |-> "idle", msg |-> ""]

\* No call of ensure_element_by_xpath yet.
IdleWait ==
    [criterium |-> "presence", timeout |-> 0, default_timeout |-> 0, dom |-> <<>>,
     scrolls |-> TRUE, events |-> <<>>, res |-> "idle"]

\* RequestiumResponse.__init__: self._selector = None.  selector is 0 for
\* None and the ordinal of the Selector otherwise; built counts the
\* Selectors constructed and queries lists the queries made, each with the
\* Selector it ran on.
NewResponse == [selector |-> 0, built |-> 0, queries |-> <<>>]

\* No call of get_tld yet.
IdleTld == [parts |-> <<>>, url |-> <<>>, res |-> <<>>, called |-> FALSE]

\* Session.__init__ plus the class attributes _driver and _last_requests_url.
Init ==
    /\ browser \in BrowserKinds
    /\ driver = NoDriver
    /\ spawned = 0
    /\ current_url = StartUrl
    /\ store = {}
    /\ jar = <<>>
    /\ last_requests_url = NoUrl
    /\ last = NoOp
    /\ pushed = NotPushed
    /\ py = 3
    /\ outcomes = <<>>
    /\ click = IdleClick
    /\ wait = IdleWait
    /\ resp = NewResponse
    /\ tldq = IdleTld

----------------------------------------------------------------------------
\* Session.driver (the property).  started: whether the webdriver process
\* comes up when the code starts one.  The result is the exception that
\* escapes (None for none), the handle and the number of processes started.
DriverResult(e, d, n) == [err |-> e, driver |-> d, spawned |-> n]

\* The property with the test "if self._driver is None" left out.
driver_property_always_starts(started) ==
    IF started
    THEN DriverResult(None, spawned + 1, spawned + 1)
    ELSE DriverResult("WebDriverException", driver, spawned)

\* The property with any unrecognised browser treated as chrome.
driver_property_default_chrome(started) ==
    IF driver = NoDriver
    THEN IF browser = "phantomjs" THEN DriverResult("TypeError", driver, spawned)
         ELSE IF started THEN DriverResult(None, spawned + 1, spawned + 1)
         ELSE DriverResult("WebDriverException", driver, spawned)
    ELSE DriverResult(None, driver, spawned)

\* _start_chrome_browser: webdriver.Chrome(...) either raises or yields a
\* new process, whose handle is its ordinal.
start_chrome_browser(started) ==
    IF started
    THEN DriverResult(None, spawned + 1, spawned + 1)
    ELSE DriverResult("WebDriverException", driver, spawned)

\* The call self._start_phantomjs_browser() passes no webdriver_path to
\* def _start_phantomjs_browser(self, webdriver_path).
start_phantomjs_browser_call == DriverResult("TypeError", driver, spawned)

driver_property(started) ==
    IF driver = NoDriver
    THEN IF browser = "phantomjs" THEN start_phantomjs_browser_call
         ELSE IF browser = "chrome" THEN start_chrome_browser(started)
         ELSE DriverResult("AttributeError", driver, spawned)
    ELSE DriverResult(None, driver, spawned)

\* A caller reads session.driver.
AccessDriver ==
    \E started \in BOOLEAN :
        \E r \in {driver_property(started)} :
           /\ r.spawned <= MaxSpawn
           /\ driver' = r.driver
           /\ spawned' = r.spawned
           /\ last' = [Op("driver", NoUrl, r.err, None, <<>>) EXCEPT
                            !.handle = IF r.err = None THEN r.driver ELSE NoDriver]
           /\ pushed' = NotPushed
           /\ UNCHANGED <<browser, current_url, store, jar,
                          last_requests_url, clickVars, otherVars>>

----------------------------------------------------------------------------
\* The HTTP verbs.  Session overrides get, post and put; every other verb
\* is the method inherited from requests.Session.
Overridden == {"get", "post", "put"}
Inherited == {"delete", "head", "patch", "options", "request"}
Verbs == Overridden \cup Inherited

\* What the verb leaves in _last_requests_url and what it returns, for a
\* response whose final URL is final.
verb_tracks(verb, final) == IF verb \in Overridden THEN final ELSE last_requests_url
verb_returns(verb) == IF verb \in Overridden THEN "RequestiumResponse" ELSE "Response"

\* The response's Set-Cookie headers: requests stores them in the jar.
ServerCookies(final) == {c \in CookiePool : DomainMatches(c.domain, final)}

\* No Set-Cookie header in the response.
NoCookie == Cookie("", "", RootPath, None, <<>>)

\* One call of the verb that returns a response: the final URL after
\* redirects and the cookie the response sets are the server's choice.
Request(verb) ==
    \E final \in Urls :
        \E c \in ServerCookies(final) \cup {NoCookie} :
            /\ jar' = IF c = NoCookie THEN jar ELSE set_cookie(jar, c)
            /\ Len(jar') <= MaxJar
            /\ last_requests_url' = verb_tracks(verb, final)
            /\ last' = Op(verb, final, None, verb_returns(verb), <<>>)
            /\ pushed' = NotPushed
            /\ UNCHANGED <<browser, driver, spawned, current_url, store, clickVars, otherVars>>

HttpGet == Request("get")

HttpVerb == \E verb \in Verbs : Request(verb)

\* The request raises (connection error, timeout).
HttpVerbFails ==
    \E verb \in Verbs, url \in Urls :
        /\ last' = Op(verb, url, "RequestException", None, <<>>)
        /\ pushed' = NotPushed
        /\ UNCHANGED <<browser, driver, spawned, current_url, store,
                       jar, last_requests_url, clickVars, otherVars>>

----------------------------------------------------------------------------
\* Session.update_driver_cookies

\* The dict that update_driver_cookies hands to driver.add_cookie for jar
\* cookie c.
driver_cookie(c) ==
    [name |-> c.name, value |-> c.value, path |-> c.path,
     expiry |-> c.expiry, domain |-> c.domain]

\* Whether the driver is sent to the target's domain before the transfer.
must_align(j, at, url) ==
    /\ (<<".">> \o get_tld(url)) \in list_domains(j)
    /\ get_tld(at) # get_tld(url)

\* 'http://' + self.get_tld(url)
align_url(url) == <<"http", "://">> \o get_tld(url)

\* for c in self.cookies: self.driver.add_cookie({...}), from the i-th jar
\* cookie on, with the driver at url at and done the calls made so far: the
\* store, the calls made and the exception that ended the loop.  A refused cookie raises or is dropped
\* (rejectMode), as the webdriver does it.
RECURSIVE add_cookies(_, _, _, _, _, _)
add_cookies(j, i, st, at, rejectMode, done) ==
    IF i > Len(j) THEN [store |-> st, trace |-> done, err |-> None]
    ELSE IF Accepts(at, driver_cookie(j[i]))
    THEN add_cookies(j, i + 1, StoreAdd(st, driver_cookie(j[i])), at, rejectMode,
                     Append(done, AddEntry(driver_cookie(j[i]), at, TRUE)))
    ELSE IF rejectMode = "raise"
    THEN [store |-> st, trace |-> Append(done, AddEntry(driver_cookie(j[i]), at, FALSE)),
          err |-> "WebDriverException"]
    ELSE add_cookies(j, i + 1, st, at, rejectMode,
                     Append(done, AddEntry(driver_cookie(j[i]), at, FALSE)))

\* self.driver.get(url) reached although the loop raised.
final_get_always(w, at, url) ==
    [url |-> url, store |-> w.store, trace |-> Append(w.trace, NavEntry(url)),
     err |-> w.err]

\* self.driver.get(url) after the loop, unless the loop raised: where the
\* driver ends up, its store, the calls made and the exception that escaped.
final_get(w, at, url) ==
    IF w.err # None
    THEN [url |-> at, store |-> w.store, trace |-> w.trace, err |-> w.err]
    ELSE [url |-> url, store |-> w.store, trace |-> Append(w.trace, NavEntry(url)),
          err |-> None]

\* update_driver_cookies with self.driver.get(url) moved before the loop.
transfer_get_first(j, url, rejectMode) ==
    LET w == add_cookies(j, 1, store, url, rejectMode, <<NavEntry(url)>>)
    IN [url |-> url, store |-> w.store, trace |-> w.trace, err |-> w.err]

\* The body of update_driver_cookies once self.driver has answered, for the
\* url it settled on.
transfer(j, url, rejectMode) ==
    IF must_align(j, current_url, url)
    THEN final_get(add_cookies(j, 1, store, align_url(url), rejectMode,
                               <<NavEntry(align_url(url))>>),
                   align_url(url), url)
    ELSE final_get(add_cookies(j, 1, store, current_url, rejectMode, <<>>),
                   current_url, url)

\* url: the caller's argument, NoUrl for none.
update_driver_cookies(url, started, rejectMode) ==
    LET u == IF url = NoUrl THEN last_requests_url ELSE url
        d == driver_property(started)
    IN IF d.err # None
       THEN [d |-> d, url |-> current_url, store |-> store, trace |-> <<>>, err |-> d.err]
       ELSE IF u = NoUrl
       \* tldextract.extract(None)
       THEN [d |-> d, url |-> current_url, store |-> store, trace |-> <<>>,
             err |-> "TypeError"]
       ELSE [d |-> d] @@ transfer(jar, u, rejectMode)

UpdateDriverCookies ==
    \E url \in Urls \cup {NoUrl}, started \in BOOLEAN, rejectMode \in RejectModes :
        \E r \in {update_driver_cookies(url, started, rejectMode)} :
           /\ r.d.spawned <= MaxSpawn
           /\ Cardinality(r.store) <= MaxStore
           /\ driver' = r.d.driver
           /\ spawned' = r.d.spawned
           /\ current_url' = r.url
           /\ store' = r.store
           /\ last' = Op("update_driver_cookies", url, r.err, None, r.trace)
           /\ pushed' = IF r.err = None THEN [valid |-> TRUE, jar |-> jar]
                        ELSE NotPushed
           /\ UNCHANGED <<browser, jar, last_requests_url, clickVars, otherVars>>

----------------------------------------------------------------------------
\* Session.update_session_cookies

\* for cookie in listing: self.cookies.set(cookie['name'], cookie['value'],
\* domain=cookie['domain'])
RECURSIVE merge_cookies(_, _, _)
merge_cookies(j, listing, i) ==
    IF i > Len(listing) THEN j
    ELSE merge_cookies(jar_set(j, listing[i].name, listing[i].value, listing[i].domain),
                       listing, i + 1)

\* listing: what driver.get_cookies() returned.
update_session_cookies(listing, started) ==
    LET d == driver_property(started)
    IN IF d.err # None
       THEN [d |-> d, jar |-> jar, err |-> d.err]
       ELSE [d |-> d, jar |-> merge_cookies(jar, listing, 1), err |-> None]

UpdateSessionCookies ==
    \E started \in BOOLEAN :
        \E listing \in Orders(Visible(store, current_url)) :
            \E r \in {update_session_cookies(listing, started)} :
               /\ r.d.spawned <= MaxSpawn
               /\ Len(r.jar) <= MaxJar
               /\ driver' = r.d.driver
               /\ spawned' = r.d.spawned
               /\ jar' = r.jar
               /\ last' = Op("update_session_cookies", NoUrl, r.err, None,
                             IF r.err = None THEN listing ELSE <<>>)
               /\ pushed' = IF last.op = "update_driver_cookies" THEN pushed
                            ELSE NotPushed
               /\ UNCHANGED <<browser, current_url, store,
                              last_requests_url, clickVars, otherVars>>

----------------------------------------------------------------------------
\* What the caller and the loaded page do to the webdriver directly.

\* session.driver.get(url) by the caller.
DriverGet ==
    \E url \in Urls :
        /\ driver # NoDriver
        /\ current_url' = url
        /\ last' = Op("driver.get", url, None, None, <<NavEntry(url)>>)
        /\ pushed' = NotPushed
        /\ UNCHANGED <<browser, driver, spawned, store, jar,
                       last_requests_url, clickVars, otherVars>>

\* The page the webdriver has loaded sets a cookie of its own.
PageSetsCookie ==
    \E c \in CookiePool :
        /\ driver # NoDriver
        /\ DomainMatches(c.domain, current_url)
        /\ Cardinality(StoreAdd(store, c)) <= MaxStore
        /\ store' = StoreAdd(store, c)
        /\ last' = Op("page", NoUrl, None, None, <<>>)
        /\ pushed' = NotPushed
        /\ UNCHANGED <<browser, driver, spawned, current_url, jar,
                       last_requests_url, clickVars, otherVars>>

Next ==
    \/ AccessDriver
    \/ HttpGet
    \/ UpdateDriverCookies
    \/ UpdateSessionCookies
    \/ DriverGet
    \/ PageSetsCookie

Spec == Init /\ [][Next]_vars

\* The HTTP side alone, with every verb of the session.
NextVerbs ==
    \/ HttpVerb
    \/ HttpVerbFails

SpecVerbs == Init /\ [][NextVerbs]_vars

----------------------------------------------------------------------------
\* _ensure_click

\* for _ in range(5)
Attempts == 5

\* What one self.click() does: it returns, it raises a WebDriverException
\* with message "m1" or "m2", or it raises something else.
ClickMessages == {"m1", "m2"}
ClickOutcomes == {"ok", "other"} \cup ClickMessages

\* The Python that runs the module: the name bound by "except ... as e" is
\* kept after the handler in Python 2 and deleted in Python 3.
Pythons == {2, 3}

\* raise WebDriverException("...{}".format(e.message)) after the loop.  In
\* Python 3 e is unbound there.  In Python 2 e is the last exception, and
\* WebDriverException.__init__ stores its text in msg, not in message, which
\* stays empty.
raise_after_loop(version, events) ==
    IF version = 3
    THEN [events |-> events, res |-> "UnboundLocalError", msg |-> ""]
    ELSE [events |-> events, res |-> "WebDriverException", msg |-> ""]

\* The loop without its "return" after a click that went through.
RECURSIVE ensure_click_no_return(_, _, _, _)
ensure_click_no_return(outs, i, version, events) ==
    IF i > Attempts
    THEN [events |-> events, res |-> "returned", msg |-> ""]
    ELSE IF outs[i] = "ok"
    THEN ensure_click_no_return(outs, i + 1, version, Append(events, "click"))
    ELSE IF outs[i] \in ClickMessages
    THEN ensure_click_no_return(outs, i + 1, version,
                                events \o <<"failed click", "sleep">>)
    ELSE [events |-> Append(events, "failed click"), res |-> "other", msg |-> ""]

\* The loop from attempt i on; outs[i] is what the i-th click does and
\* events the clicks and sleeps so far.
RECURSIVE ensure_click_from(_, _, _, _)
ensure_click_from(outs, i, version, events) ==
    IF i > Attempts THEN raise_after_loop(version, events)
    ELSE IF outs[i] = "ok"
    THEN [events |-> Append(events, "click"), res |-> "returned", msg |-> ""]
    ELSE IF outs[i] \in ClickMessages
    THEN ensure_click_from(outs, i + 1, version,
                           events \o <<"failed click", "sleep">>)
    ELSE [events |-> Append(events, "failed click"), res |-> "other", msg |-> ""]

_ensure_click(outs, version) == ensure_click_from(outs, 1, version, <<>>)

\* The session of a running click: a started chrome session.
InitClick ==
    /\ browser = "chrome"
    /\ driver = 1
    /\ spawned = 1
    /\ current_url = ExampleLogin
    /\ store = {}
    /\ jar = <<>>
    /\ last_requests_url = NoUrl
    /\ last = NoOp
    /\ pushed = NotPushed
    /\ py \in Pythons
    /\ outcomes \in [1..MaxClicks -> ClickOutcomes]
    /\ click = IdleClick
    /\ wait = IdleWait
    /\ resp = NewResponse
    /\ tldq = IdleTld

\* element.ensure_click()
EnsureClick ==
    /\ click.res = "idle"
    /\ click' = _ensure_click(outcomes, py)
    /\ UNCHANGED <<sessionVars, py, outcomes, otherVars>>

NextClick == EnsureClick

SpecClick == InitClick /\ [][NextClick]_vars

----------------------------------------------------------------------------
\* Session.__ensure_element_by_xpath.  Time is counted in polls of
\* WebDriverWait: a timeout of n is n poll intervals.

\* timeout=None, the parameter's default.
NoTimeout == -1

Criteria == {"visibility", "clickable", "presence"}

\* What a caller passes as criterium.
CriteriumInputs == Criteria \cup {"enabled"}

\* What a caller passes as timeout, and the session's default_timeout.
TimeoutInputs == {NoTimeout, 0, 1, 2}
DefaultTimeouts == {1, 3}

\* The element under the selector at one poll: not in the document, in it
\* but not displayed, displayed but disabled, displayed and enabled.
DomStates == {"absent", "hidden", "disabled", "ready"}

\* EC.presence_of_element_located, EC.visibility_of_element_located and
\* EC.element_to_be_clickable on an element in state st.
satisfies(criterium, st) ==
    IF criterium = "presence" THEN st # "absent"
    ELSE IF criterium = "visibility" THEN st \in {"disabled", "ready"}
    ELSE st = "ready"

\* if not timeout: timeout = self.default_timeout
effective_timeout(timeout, default_timeout) ==
    IF timeout = NoTimeout \/ timeout = 0 THEN default_timeout ELSE timeout

\* WebDriverWait(driver, timeout).until(condition), from poll i on: the
\* condition is tried, then the wait sleeps one interval and gives up once
\* the time is past the timeout.
RECURSIVE until(_, _, _, _, _)
until(criterium, timeout, dom, i, events) ==
    IF satisfies(criterium, dom[i])
    THEN [events |-> Append(events, "poll"), res |-> "found"]
    ELSE IF i >= timeout
    THEN [events |-> events \o <<"poll", "sleep">>, res |-> "TimeoutException"]
    ELSE until(criterium, timeout, dom, i + 1, events \o <<"poll", "sleep">>)

\* The end of the method with the decoration done before the scroll.
decorate_and_scroll(w, scrolls) ==
    IF w.res # "found" THEN w
    ELSE IF ~scrolls
    THEN [events |-> w.events \o <<"decorate", "failed scroll">>,
          res |-> "WebDriverException"]
    ELSE [events |-> w.events \o <<"decorate", "scroll">>, res |-> "returned"]

\* element.location_once_scrolled_into_view and element.ensure_click =
\* partial(_ensure_click, element), once the wait is over.
scroll_and_decorate(w, scrolls) ==
    IF w.res # "found" THEN w
    ELSE IF ~scrolls
    THEN [events |-> Append(w.events, "failed scroll"), res |-> "WebDriverException"]
    ELSE [events |-> w.events \o <<"scroll", "decorate">>, res |-> "returned"]

\* The method with an unknown criterium waited for as 'presence'.
ensure_element_default_presence(criterium, timeout, default_timeout, dom, scrolls) ==
    scroll_and_decorate(
        until(IF criterium \in Criteria THEN criterium ELSE "presence",
              effective_timeout(timeout, default_timeout), dom, 1, <<>>),
        scrolls)

ensure_element_by_xpath(criterium, timeout, default_timeout, dom, scrolls) ==
    IF criterium \in Criteria
    THEN scroll_and_decorate(
             until(criterium, effective_timeout(timeout, default_timeout), dom, 1, <<>>),
             scrolls)
    ELSE [events |-> <<>>, res |-> "ValueError"]

\* A started chrome session and the arguments of one call.
InitWait ==
    /\ browser = "chrome"
    /\ driver = 1
    /\ spawned = 1
    /\ current_url = ExampleLogin
    /\ store = {}
    /\ jar = <<>>
    /\ last_requests_url = NoUrl
    /\ last = NoOp
    /\ pushed = NotPushed
    /\ py = 3
    /\ outcomes = <<>>
    /\ click = IdleClick
    /\ resp = NewResponse
    /\ tldq = IdleTld
    /\ \E c \in CriteriumInputs, t \in TimeoutInputs, d \in DefaultTimeouts,
          dom \in [1..MaxPolls -> DomStates], sc \in BOOLEAN :
          wait = [criterium |-> c, timeout |-> t, default_timeout |-> d, dom |-> dom,
                  scrolls |-> sc, events |-> <<>>, res |-> "idle"]

\* driver.ensure_element_by_xpath(selector, criterium, timeout)
EnsureElement ==
    /\ wait.res = "idle"
    /\ \E r \in {ensure_element_by_xpath(wait.criterium, wait.timeout,
                                         wait.default_timeout, wait.dom, wait.scrolls)} :
          wait' = [wait EXCEPT !.events = r.events, !.res = r.res]
    /\ UNCHANGED <<sessionVars, clickVars, resp, tldq>>

NextWait == EnsureElement

SpecWait == InitWait /\ [][NextWait]_vars

----------------------------------------------------------------------------
\* RequestiumResponse

\* The selector property without the test "if self._selector is None".
selector_property_rebuilds(r) ==
    [r EXCEPT !.selector = r.built + 1, !.built = r.built + 1]

\* RequestiumResponse.selector: the Selector is built from response.text
\* when _selector is None, and _selector is returned.
selector_property(r) ==
    IF r.selector = 0
    THEN [r EXCEPT !.selector = r.built + 1, !.built = r.built + 1]
    ELSE r

QueryKinds == {"xpath", "css", "re", "re_first"}

\* self.selector.<kind>(*args, **kwargs)
query(r, kind) ==
    [selector_property(r) EXCEPT
        !.queries = Append(@, [kind |-> kind, on |-> selector_property(r).selector])]

Query(kind) ==
    /\ Len(resp.queries) < MaxQueries
    /\ resp' = query(resp, kind)
    /\ UNCHANGED <<sessionVars, clickVars, wait, tldq>>

Xpath == Query("xpath")
Css == Query("css")
Re == Query("re")
ReFirst == Query("re_first")

\* A response just wrapped by Session.get.
InitResp ==
    /\ browser = "phantomjs"
    /\ driver = NoDriver
    /\ spawned = 0
    /\ current_url = StartUrl
    /\ store = {}
    /\ jar = <<>>
    /\ last_requests_url = ExampleLogin
    /\ last = Op("get", ExampleLogin, None, "RequestiumResponse", <<>>)
    /\ pushed = NotPushed
    /\ py = 3
    /\ outcomes = <<>>
    /\ click = IdleClick
    /\ wait = IdleWait
    /\ resp = NewResponse
    /\ tldq = IdleTld

NextResp ==
    \/ Xpath
    \/ Css
    \/ Re
    \/ ReFirst

SpecResp == InitResp /\ [][NextResp]_vars

----------------------------------------------------------------------------
\* Session.get_tld on its own: the URLs it is given are put together from a
\* scheme (none for ""), a host, a port and a path.

Schemes == {"", "http", "https"}

Hosts ==
    { <<"example.com">>, <<"www", ".", "example.com">>, <<"10.0.0.1">>,
      <<"localhost">>, <<"domain.onion">>, <<"[", ":", ":", "1", "]">> }

Ports == { <<>>, <<":", "8080">> }

Paths == { <<>>, <<"/">>, <<"/", "x">>, <<"/", "a", ":", "b">> }

UrlOf(parts) ==
    (IF parts.scheme = "" THEN <<>> ELSE <<parts.scheme, "://">>)
        \o parts.host \o parts.port \o parts.path

InitTld ==
    /\ browser = "phantomjs"
    /\ driver = NoDriver
    /\ spawned = 0
    /\ current_url = StartUrl
    /\ store = {}
    /\ jar = <<>>
    /\ last_requests_url = NoUrl
    /\ last = NoOp
    /\ pushed = NotPushed
    /\ py = 3
    /\ outcomes = <<>>
    /\ click = IdleClick
    /\ wait = IdleWait
    /\ resp = NewResponse
    /\ \E sc \in Schemes, h \in Hosts, po \in Ports, pa \in Paths :
          tldq = [parts |-> [scheme |-> sc, host |-> h, port |-> po, path |-> pa],
                  url |-> UrlOf([scheme |-> sc, host |-> h, port |-> po, path |-> pa]),
                  res |-> <<>>, called |-> FALSE]

\* session.get_tld(url)
GetTld ==
    /\ ~tldq.called
    /\ tldq' = [tldq EXCEPT !.res = get_tld(tldq.url), !.called = TRUE]
    /\ UNCHANGED <<sessionVars, clickVars, wait, resp>>

NextTld == GetTld

SpecTld == InitTld /\ [][NextTld]_vars

----------------------------------------------------------------------------
\* Properties of update_driver_cookies and update_session_cookies (Spec).

IsPush == last.op = "update_driver_cookies"
IsPull == last.op = "update_session_cookies"

\* The url update_driver_cookies settled on in the last call.
Target == IF last.arg = NoUrl THEN last_requests_url ELSE last.arg

\* The cookies of the add_cookie calls of a trace, in order.
RECURSIVE AddedCookies(_)
AddedCookies(t) ==
    IF t = <<>> THEN <<>>
    ELSE IF Head(t).act = "add_cookie"
    THEN <<Head(t).cookie>> \o AddedCookies(Tail(t))
    ELSE AddedCookies(Tail(t))

\* C1: every add_cookie that update_driver_cookies issues is issued while
\* the page the webdriver has loaded is of the cookie's domain.
C1_WritesAtMatchingDomain ==
    IsPush =>
        \A i \in 1..Len(last.trace) :
            last.trace[i].act = "add_cookie" =>
                DomainMatches(last.trace[i].cookie.domain, last.trace[i].at)

\* C2: the webdriver calls of update_driver_cookies come in the order
\* alignment get (at most one, first), one add_cookie per jar cookie in the
\* jar's order, get(target) last: a get is only ever the first or the last
\* call, a first get that is not the last call goes to the target's domain,
\* and a call that returns has written every jar cookie exactly once and
\* ended with get(target).
C2_PushOrder ==
    IsPush =>
        /\ \A i \in 1..Len(last.trace) :
              last.trace[i].act = "get" => i = 1 \/ i = Len(last.trace)
        /\ (Len(last.trace) > 0 /\ last.trace[1].act = "get"
              /\ (Len(last.trace) > 1 \/ last.err # None))
              => last.trace[1] = NavEntry(align_url(Target))
        /\ last.err # None =>
              /\ Len(AddedCookies(last.trace)) <= Len(jar)
              /\ \A i \in 1..Len(AddedCookies(last.trace)) :
                    AddedCookies(last.trace)[i] = jar[i]
              /\ \A i \in 1..Len(last.trace) :
                    last.trace[i].act = "get" => i = 1
        /\ last.err = None =>
              /\ Len(last.trace) >= 1
              /\ last.trace[Len(last.trace)] = NavEntry(Target)
              /\ AddedCookies(last.trace) = jar
              /\ Len(last.trace) \in {Len(jar) + 1, Len(jar) + 2}

\* A call that aligned, wrote two cookies and went to the target.
C2_Witness ==
    /\ IsPush
    /\ last.err = None
    /\ Len(last.trace) = 4
    /\ last.trace[1] = NavEntry(align_url(Target))
    /\ last.trace[2].act = "add_cookie"
    /\ last.trace[3].act = "add_cookie"

\* C3: after a GET and update_driver_cookies() without argument, on a
\* session whose webdriver runs, the webdriver is at the URL of the GET and
\* holds every jar cookie of that URL's registered domain.
C3_GetThenPush ==
    (IsPush /\ last.arg = NoUrl /\ last_requests_url # NoUrl /\ driver # NoDriver) =>
        /\ current_url = last_requests_url
        /\ \A i \in 1..Len(jar) :
              StripDot(jar[i].domain) = get_tld(last_requests_url)
                  => driver_cookie(jar[i]) \in store

\* C4: update_driver_cookies followed at once by update_session_cookies,
\* both returning, leaves in the jar, for every cookie that was pushed, a
\* cookie of that name and domain with the pushed value.
C4_RoundTrip ==
    (IsPull /\ last.err = None /\ pushed.valid) =>
        \A i \in 1..Len(pushed.jar) :
            \E k \in 1..Len(jar) :
                /\ jar[k].name = pushed.jar[i].name
                /\ jar[k].domain = pushed.jar[i].domain
                /\ jar[k].value = pushed.jar[i].value

\* C5: after update_session_cookies the jar holds, for the name and domain
\* of every cookie the webdriver listed, exactly one cookie, and its value
\* is one the webdriver listed under that name and domain.
C5_PullMerges ==
    (IsPull /\ last.err = None) =>
        \A i \in 1..Len(last.trace) :
            /\ Cardinality({k \in 1..Len(jar) :
                               /\ jar[k].name = last.trace[i].name
                               /\ jar[k].domain = last.trace[i].domain}) = 1
            /\ \A k \in 1..Len(jar) :
                  (jar[k].name = last.trace[i].name
                      /\ jar[k].domain = last.trace[i].domain)
                  => \E m \in 1..Len(last.trace) :
                        /\ last.trace[m].name = jar[k].name
                        /\ last.trace[m].domain = jar[k].domain
                        /\ last.trace[m].value = jar[k].value

----------------------------------------------------------------------------
\* Properties of the HTTP verbs (SpecVerbs).

\* C6: after a call of any verb that returned, _last_requests_url is the
\* final URL of its response and the value returned is a RequestiumResponse.
C6_EveryVerbTracks ==
    (last.op \in Verbs /\ last.err = None) =>
        /\ last_requests_url = last.arg
        /\ last.ret = "RequestiumResponse"

----------------------------------------------------------------------------
\* Properties of Session.driver (Spec).

DriverOps == {"driver", "update_driver_cookies", "update_session_cookies"}

\* C7: a session starts at most one webdriver process; once _driver is set
\* no step changes it or starts another process, and every read of
\* session.driver from then on returns that handle.
C7_AcquireIdempotent ==
    [][ /\ spawned' <= 1
        /\ driver # NoDriver =>
              /\ driver' = driver
              /\ spawned' = spawned
              /\ (last'.op = "driver" => last'.err = None /\ last'.handle = driver)
      ]_vars

\* A read of session.driver on a session whose webdriver already held a
\* cookie, hence was started by an earlier access.
C7_Witness ==
    /\ last.op = "driver"
    /\ last.handle = 1
    /\ driver = 1
    /\ spawned = 1
    /\ store # {}

\* C8: with a browser that is neither phantomjs nor chrome, every operation
\* that reads session.driver raises AttributeError, starts no process,
\* leaves _driver unset and changes neither the jar, the last URL nor the
\* webdriver side.
C8_UnknownBrowser ==
    [][ (browser \notin {"phantomjs", "chrome"} /\ last'.op \in DriverOps) =>
            /\ last'.err = "AttributeError"
            /\ driver' = NoDriver
            /\ spawned' = 0
            /\ last'.trace = <<>>
            /\ UNCHANGED <<jar, last_requests_url, store, current_url>>
      ]_vars

\* update_driver_cookies and then update_session_cookies failed on a
\* session with an unknown browser that has a cookie and a last URL.
C8_Witness ==
    /\ browser = "unknown"
    /\ IsPush
    /\ last.err = "AttributeError"
    /\ Len(jar) > 0
    /\ last_requests_url # NoUrl
    /\ driver = NoDriver

----------------------------------------------------------------------------
\* Properties of _ensure_click (SpecClick).

Count(t, e) == Cardinality({i \in 1..Len(t) : t[i] = e})

Clicks(t) == Count(t, "click") + Count(t, "failed click")

\* The first k-1 clicks raise WebDriverException and the k-th goes through.
FirstSucceedsAt(k) ==
    /\ outcomes[k] = "ok"
    /\ \A m \in 1..(k - 1) : outcomes[m] \in ClickMessages

\* C9: ensure_click clicks at most 5 times, does nothing after a click that
\* went through, and returns after exactly k clicks when the click first
\* goes through on attempt k, for k = 1..5.
C9_StopsAtFirstSuccess ==
    click.res # "idle" =>
        /\ Clicks(click.events) <= 5
        /\ \A i \in 1..Len(click.events) :
              click.events[i] = "click" => i = Len(click.events)
        /\ \A k \in 1..5 :
              FirstSucceedsAt(k) =>
                  /\ click.res = "returned"
                  /\ Clicks(click.events) = k
                  /\ Count(click.events, "sleep") = k - 1

\* The click went through on the 3rd attempt.
C9_Witness ==
    /\ click.res = "returned"
    /\ FirstSucceedsAt(3)
    /\ click.events = <<"failed click", "sleep", "failed click", "sleep", "click">>

\* C10: when all 5 clicks raise WebDriverException, ensure_click raises
\* WebDriverException after 4 sleeps, none of them after the last click.
C10_FourSleeps ==
    (click.res # "idle" /\ \A k \in 1..5 : outcomes[k] \in ClickMessages) =>
        /\ click.res = "WebDriverException"
        /\ Count(click.events, "sleep") = 4
        /\ click.events[Len(click.events)] # "sleep"

\* C11: when all 5 clicks raise WebDriverException, what reaches the caller
\* is a WebDriverException whose message is that of the 5th click's failure.
C11_CarriesLastMessage ==
    (click.res # "idle" /\ \A k \in 1..5 : outcomes[k] \in ClickMessages) =>
        /\ click.res = "WebDriverException"
        /\ click.msg = outcomes[5]

----------------------------------------------------------------------------
\* Properties of __ensure_element_by_xpath (SpecWait).

\* C12: with a criterium that is none of presence, visibility, clickable
\* the call raises ValueError without a poll, a sleep, a scroll or a
\* decoration, whatever the timeout and the document.
C12_UnknownCriterium ==
    (wait.res # "idle" /\ wait.criterium \notin Criteria) =>
        /\ wait.res = "ValueError"
        /\ wait.events = <<>>

\* An unknown criterium was refused while the element was there to find.
C12_Witness ==
    /\ wait.res = "ValueError"
    /\ wait.criterium = "enabled"
    /\ wait.dom[1] = "ready"
    /\ wait.timeout = 2

\* C13: a call that returns an element has polled until the element met
\* the criterium, then scrolled it into view once, then decorated it once,
\* in that order and with nothing in between; a call that ends in
\* TimeoutException has neither scrolled nor decorated.
C13_WaitScrollDecorate ==
    /\ wait.res = "returned" =>
          /\ Len(wait.events) >= 3
          /\ SubSeq(wait.events, Len(wait.events) - 2, Len(wait.events))
                = <<"poll", "scroll", "decorate">>
          /\ satisfies(wait.criterium, wait.dom[Count(wait.events, "poll")])
          /\ Count(wait.events, "scroll") = 1
          /\ Count(wait.events, "decorate") = 1
    /\ wait.res = "TimeoutException" =>
          /\ Count(wait.events, "scroll") = 0
          /\ Count(wait.events, "decorate") = 0

\* An element that became clickable at the second poll was returned.
C13_Witness ==
    /\ wait.res = "returned"
    /\ wait.criterium = "clickable"
    /\ wait.events = <<"poll", "sleep", "poll", "scroll", "decorate">>

\* The window the claim gives a call: the caller's timeout when there is
\* one, default_timeout otherwise.
Window == IF wait.timeout = NoTimeout THEN wait.default_timeout ELSE wait.timeout

\* The polls that fit in a window of n intervals.
PollsWithin(n) == IF n = 0 THEN 1 ELSE n

\* C14: a call with a known criterium ends; it returns (or fails in the
\* scroll) only for an element that met the criterium at a poll within the
\* window, and raises TimeoutException at the end of the window otherwise.
C14_WindowIsCallersTimeout ==
    (wait.res # "idle" /\ wait.criterium \in Criteria) =>
        /\ wait.res \in {"returned", "WebDriverException", "TimeoutException"}
        /\ Count(wait.events, "poll") <= PollsWithin(Window)
        /\ wait.res = "TimeoutException" <=>
              \A i \in 1..PollsWithin(Window) : ~satisfies(wait.criterium, wait.dom[i])
        /\ wait.res # "TimeoutException" =>
              satisfies(wait.criterium, wait.dom[Count(wait.events, "poll")])

----------------------------------------------------------------------------
\* More properties of the cookie transfer (Spec).

\* The call of update_driver_cookies recorded in op was ended by a refused
\* add_cookie.
WriteRefused(op) ==
    /\ op.op = "update_driver_cookies"
    /\ op.err = "WebDriverException"
    /\ op.trace # <<>>

\* C15: when add_cookie refuses the k-th jar cookie by raising, the
\* exception ends update_driver_cookies at once: the refused call is the
\* last one, the k-1 cookies before it were accepted and are in the store,
\* the refused one and the later ones are not written, there is no get of
\* the target, and the jar and _last_requests_url are as before.
C15_NotTransactional ==
    [][ WriteRefused(last') =>
          /\ last'.trace[Len(last'.trace)].act = "add_cookie"
          /\ ~last'.trace[Len(last'.trace)].ok
          /\ \A i \in 1..(Len(last'.trace) - 1) :
                /\ last'.trace[i].act = "add_cookie" =>
                      last'.trace[i].ok /\ last'.trace[i].cookie \in store'
                /\ last'.trace[i].act = "get" =>
                      i = 1 /\ last'.trace[i].url # Target'
          /\ AddedCookies(last'.trace)
                = SubSeq(jar, 1, Len(AddedCookies(last'.trace)))
          /\ \A c \in store' \ store :
                \E i \in 1..(Len(AddedCookies(last'.trace)) - 1) : c = jar[i]
          /\ current_url' # Target' \/ current_url' = current_url
          /\ jar' = jar
          /\ last_requests_url' = last_requests_url
      ]_vars

\* After an alignment the first jar cookie was written and the second was
\* refused.
C15_Witness ==
    /\ WriteRefused(last)
    /\ Len(last.trace) = 3
    /\ last.trace[1].act = "get"
    /\ last.trace[2].act = "add_cookie"
    /\ last.trace[2].ok
    /\ last.trace[2].cookie \in store
    /\ ~last.trace[3].ok

----------------------------------------------------------------------------
\* Properties of RequestiumResponse (SpecResp).

\* C16: over any sequence of xpath, css, re and re_first calls on one
\* response at most one Selector is built, a Selector once built is never
\* replaced, and every query runs on that first Selector.
C16_SelectorBuiltOnce ==
    [][ /\ resp'.built <= 1
        /\ resp.selector # 0 =>
              resp'.selector = resp.selector /\ resp'.built = resp.built
        /\ \A i \in 1..Len(resp'.queries) : resp'.queries[i].on = 1
      ]_vars

\* Three queries of three kinds ran on the one Selector.
C16_Witness ==
    /\ resp.built = 1
    /\ resp.selector = 1
    /\ Len(resp.queries) = 3
    /\ resp.queries[1].kind = "xpath"
    /\ resp.queries[2].kind = "css"
    /\ resp.queries[3].kind = "re_first"
    /\ \A i \in 1..3 : resp.queries[i].on = 1

----------------------------------------------------------------------------
\* More properties of the cookie transfer and of Session.driver (Spec).

\* C17: every cookie handed to add_cookie equals, in name, value, path,
\* expiry and domain, the jar cookie it was made from, and every cookie the
\* webdriver listed is in the jar with the same five fields after
\* update_session_cookies.
C17_LosslessBothWays ==
    /\ IsPush =>
          \A i \in 1..Len(last.trace) :
              last.trace[i].act = "add_cookie" =>
                  \E k \in 1..Len(jar) : jar[k] = last.trace[i].cookie
    /\ (IsPull /\ last.err = None) =>
          \A i \in 1..Len(last.trace) :
              \E k \in 1..Len(jar) : jar[k] = last.trace[i]

\* C18: on a session whose browser is phantomjs or chrome and whose
\* webdriver executable starts, a read of session.driver returns a handle
\* and leaves it in _driver, with one process started.
C18_RecognisedKindsStart ==
    (/\ last.op = "driver"
     /\ browser \in {"phantomjs", "chrome"}
     /\ last.err # "WebDriverException") =>
        /\ last.err = None
        /\ driver # NoDriver
        /\ last.handle = driver
        /\ spawned = 1

\* The jar holds a cookie of the registered domain of url, with or without
\* the leading dot.
JarHasCookieOf(j, url) ==
    \E i \in 1..Len(j) : StripDot(j[i].domain) = get_tld(url)

\* C19: a call of update_driver_cookies that reaches the webdriver starts
\* with an alignment get exactly when the jar holds a cookie of the
\* target's registered domain and the webdriver is at another registered
\* domain; the alignment goes to that domain, and without one the only get
\* is the last call.
C19_AlignsExactlyWhen ==
    [][ (last'.op = "update_driver_cookies" /\ last'.trace # <<>>) =>
          /\ (Len(last'.trace) > 1 /\ last'.trace[1].act = "get")
                <=> (/\ JarHasCookieOf(jar, Target')
                     /\ get_tld(current_url) # get_tld(Target'))
          /\ (Len(last'.trace) > 1 /\ last'.trace[1].act = "get")
                => last'.trace[1] = NavEntry(align_url(Target'))
          /\ \A i \in 2..(Len(last'.trace) - 1) : last'.trace[i].act # "get"
      ]_vars

----------------------------------------------------------------------------
\* Properties of get_tld (SpecTld).

\* C20: get_tld returns the registered domain when tldextract finds one;
\* otherwise the host alone for a URL scheme://host[:port][/path], and the
\* input itself for a string without "://".
C20_ResolvesHost ==
    tldq.called =>
        /\ registered_domain(tldq.url) # <<>> => tldq.res = registered_domain(tldq.url)
        /\ (registered_domain(tldq.url) = <<>> /\ tldq.parts.scheme # "")
              => tldq.res = tldq.parts.host
        /\ (registered_domain(tldq.url) = <<>> /\ tldq.parts.scheme = "")
              => tldq.res = tldq.url

====
